---------------------------- MODULE Spec2Model ----------------------------
(***************************************************************************)
(* A model of the datamodels package: typed columns (datatypes.py), the    *)
(* class-attribute merge (utils.py), the SQL statement compiler            *)
(* (sqlparser.py), the row orchestrator (models.py) and the locked         *)
(* connection (sqlite_driver.py).                                          *)
(*                                                                         *)
(* Python values are records [k, n, s]: k is the Python type name, n the   *)
(* number (int, bool 0/1, an integral float, a datetime's microseconds     *)
(* within one fixed second) and s the characters of a str, as a sequence   *)
(* of tokens.  Text (SQL statements, rendered literals) is a sequence of   *)
(* tokens in which " " is an explicit token, so that whitespace            *)
(* normalisation is something the model computes.                          *)
(***************************************************************************)
EXTENDS Integers, Sequences, FiniteSets, TLC

VARIABLES
    classes,      \* the declared classes: name -> [bases, dict, db_name]
    cls,          \* the model class the row scenario works on
    inst,         \* the row instance (its __dict__ as a sequence of [name, attr]), or NoInstance
    clock,        \* the wall clock read by datetime.now(), in half milliseconds
    lastrowid,    \* the cursor's lastrowid
    op,           \* the operation that ran last
    result,       \* what it returned ("True", "False", "None", a list) or the exception it raised
    sent,         \* the statements the last operation passed to SqliteDriver.execute
    col,          \* the column object of the column scenario
    arg,          \* the input of the last column operation, or the filter of the statement scenario
    merged,       \* the last result of get_class_attrs in the merge scenario
    lock,         \* SqliteDriver._lock: TRUE while held
    pc,           \* per thread: where it is inside SqliteDriver.execute
    mode,         \* per thread: the execution mode of its call
    done          \* per thread: what its call has done under the lock so far

vars == <<classes, cls, inst, clock, lastrowid, op, result, sent, col, arg,
          merged, lock, pc, mode, done>>

-----------------------------------------------------------------------------
(* Bounds of the model.                                                    *)

MaxClock == 1
MaxRowId == 2
MaxChain == 3
MaxThreads == 2

-----------------------------------------------------------------------------
(* Python values.                                                          *)

None == [k |-> "NoneType", n |-> 0, s |-> <<>>]
PyInt(i) == [k |-> "int", n |-> i, s |-> <<>>]
PyBool(b) == [k |-> "bool", n |-> IF b THEN 1 ELSE 0, s |-> <<>>]
PyFloat(i) == [k |-> "float", n |-> i, s |-> <<>>]
PyStr(chars) == [k |-> "str", n |-> 0, s |-> chars]
PyDateTime(us) == [k |-> "datetime", n |-> us, s |-> <<>>]

\* a == b for the values above: int, bool and float compare by number
PyEq(a, b) ==
    IF a.k \in {"int", "bool", "float"} /\ b.k \in {"int", "bool", "float"}
    THEN a.n = b.n
    ELSE a = b

\* isinstance(value, dtype); bool is a subclass of int
isinstance(value, dtype) ==
    \/ value.k = dtype
    \/ dtype = "int" /\ value.k = "bool"

DigitStr == <<"0", "1", "2", "3", "4", "5", "6", "7", "8", "9">>

RECURSIVE ZeroPad(_, _)
ZeroPad(n, w) ==
    IF w = 0 THEN <<>> ELSE ZeroPad(n \div 10, w - 1) \o <<DigitStr[(n % 10) + 1]>>

RECURSIVE IntStr(_)
IntStr(n) ==
    IF n < 10 THEN <<DigitStr[n + 1]>> ELSE IntStr(n \div 10) \o <<DigitStr[(n % 10) + 1]>>

\* the date and seconds of every datetime of the model
DateSec == "2020-01-01 00:00:00"

IsDigit(t) == \E i \in 1..10 : DigitStr[i] = t

\* the microseconds a sequence of up to six digits stands for under %f
RECURSIVE DigitsValue(_)
DigitsValue(ds) ==
    IF ds = <<>> THEN 0
    ELSE LET d == CHOOSE i \in 0..9 : DigitStr[i + 1] = ds[Len(ds)]
         IN  DigitsValue(SubSeq(ds, 1, Len(ds) - 1)) * 10 + d

\* str(value)
str(value) ==
    CASE value.k = "NoneType" -> <<"None">>
      [] value.k = "int"      -> IntStr(value.n)
      [] value.k = "bool"     -> IF value.n = 1 THEN <<"True">> ELSE <<"False">>
      [] value.k = "float"    -> IntStr(value.n) \o <<".", "0">>
      [] value.k = "str"      -> value.s
      [] value.k = "datetime" ->
            <<DateSec>> \o (IF value.n = 0 THEN <<>> ELSE <<".">> \o ZeroPad(value.n, 6))

\* the outcome of a call: the exception raised ("ok" when none), the value
\* returned, and the object the call was made on as the call leaves it
Ret(exc, ret, self) == [exc |-> exc, ret |-> ret, self |-> self]
Ok == "ok"

\* r = v; F(r): binds the outcome of a call to a name
Bind(v, F(_)) == F(v)

-----------------------------------------------------------------------------
(* datatypes.py: the column classes.  A column object is a record of its   *)
(* attributes; pyclass names its class.                                    *)

NoForeignKey == <<>>

dtype(self) ==
    CASE self.pyclass = "DataTypeInteger"  -> "int"
      [] self.pyclass = "DataTypeFloat"    -> "float"
      [] self.pyclass = "DataTypeString"   -> "str"
      [] self.pyclass = "DataTypeDateTime" -> "datetime"
      [] self.pyclass = "DataTypeBoolean"  -> "bool"

dtype_name(self) ==
    CASE self.pyclass = "DataTypeInteger"  -> "integer"
      [] self.pyclass = "DataTypeFloat"    -> "real"
      [] self.pyclass = "DataTypeString"   -> "text"
      [] self.pyclass = "DataTypeDateTime" -> "text"
      [] self.pyclass = "DataTypeBoolean"  -> "integer"

\* DataType.__init__ (and DataTypeDateTime.__init__): value falls back to default
DataType(pyclass, value, primary_key, foreign_key, not_null, default, update_on_created, update_on_modified) ==
    [pyclass |-> pyclass,
     primary_key |-> primary_key,
     foreign_key |-> foreign_key,
     not_null |-> not_null,
     default |-> default,
     changed |-> FALSE,
     change |-> "unset",
     value |-> IF value = None THEN default ELSE value,
     update_on_created |-> update_on_created,
     update_on_modified |-> update_on_modified]

\* datetime_regex, matched at the start of the string only (re.match)
datetime_regex_match(value) ==
    /\ Len(value.s) >= 5
    /\ value.s[1] = DateSec
    /\ value.s[2] = "."
    /\ \A i \in 3..5 : IsDigit(value.s[i])

DataType_type_check(self, value) ==
    IF value = None THEN Ret(Ok, "True", self)
    ELSE IF isinstance(value, dtype(self)) THEN Ret(Ok, "True", self)
    ELSE Ret("AttributeTypeError", "None", self)

DataTypeDateTime_type_check(self, value) ==
    IF isinstance(value, "str")
    THEN IF datetime_regex_match(value) THEN Ret(Ok, "True", self) ELSE Ret(Ok, "False", self)
    ELSE DataType_type_check(self, value)

type_check(self, value) ==
    IF self.pyclass = "DataTypeDateTime"
    THEN DataTypeDateTime_type_check(self, value)
    ELSE DataType_type_check(self, value)

DataType_autofill_check(self) ==
    IF self.primary_key THEN TRUE ELSE FALSE

DataTypeDateTime_autofill_check(self) ==
    IF self.primary_key THEN TRUE
    ELSE IF self.update_on_modified THEN TRUE
    ELSE IF self.update_on_created /\ self.value = None THEN TRUE
    ELSE FALSE

autofill_check(self) ==
    IF self.pyclass = "DataTypeDateTime"
    THEN DataTypeDateTime_autofill_check(self)
    ELSE DataType_autofill_check(self)

set_change(self) == [self EXCEPT !.changed = TRUE]

\* assigns the attribute _change, not _changed
clear_change(self) == [self EXCEPT !.change = "False"]

\* what DataType.update does to a protected column
DataType_update_protected(self, value) == Ret("AttributeAutofillError", "None", self)

DataType_update(self, value, do_type_check) ==
    IF autofill_check(self) THEN DataType_update_protected(self, value)
    ELSE Bind(IF do_type_check THEN type_check(self, value) ELSE Ret(Ok, "True", self),
              LAMBDA tc :
                  IF tc.exc # Ok THEN tc
                  ELSE IF tc.ret = "True"
                  THEN IF ~PyEq(value, self.value)
                       THEN Ret(Ok, "True", set_change([self EXCEPT !.value = value]))
                       ELSE Ret(Ok, "False", self)
                  ELSE Ret(Ok, "None", self))

\* datetime.strptime(value + '000', '%Y-%m-%d %H:%M:%S.%f'): %f takes one to six digits
from_str(value) ==
    LET chars == value.s \o <<"0", "0", "0">>
    IN  IF /\ Len(chars) >= 3 /\ Len(chars) <= 8
           /\ chars[1] = DateSec /\ chars[2] = "."
           /\ \A i \in 3..Len(chars) : IsDigit(chars[i])
        THEN LET ds == SubSeq(chars, 3, Len(chars))
                 padded == ds \o [i \in 1..(6 - Len(ds)) |-> "0"]
             IN  Ret(Ok, PyDateTime(DigitsValue(padded)), value)
        ELSE Ret("ValueError", None, value)

\* a variant of the protected branch that stores the value
DataTypeDateTime_update_unprotected(self, value) ==
    Ret(Ok, "True", set_change([self EXCEPT !.value = value]))

\* what DataTypeDateTime.update does to a protected column
DataTypeDateTime_update_protected(self, value) == Ret(Ok, "None", self)

DataTypeDateTime_update(self, value, do_type_check) ==
    IF DataTypeDateTime_autofill_check(self) THEN DataTypeDateTime_update_protected(self, value)
    ELSE Bind(IF do_type_check THEN type_check(self, value) ELSE Ret(Ok, "True", self),
              LAMBDA tc :
                  IF tc.exc # Ok THEN tc
                  ELSE IF tc.ret # "True" THEN Ret(Ok, "None", self)
                  ELSE Bind(IF isinstance(value, "str") THEN from_str(value)
                            ELSE Ret(Ok, value, value),
                            LAMBDA parsed :
                                IF parsed.exc # Ok THEN Ret(parsed.exc, "None", self)
                                ELSE DataType_update(self, parsed.ret, FALSE)))

\* update(value, type_check): DataTypeBoolean.update passes its arguments on
update(self, value, do_type_check) ==
    IF self.pyclass = "DataTypeDateTime"
    THEN DataTypeDateTime_update(self, value, do_type_check)
    ELSE DataType_update(self, value, do_type_check)

\* update(value): type_check defaults to False in DataTypeDateTime, True elsewhere
update_default(self, value) ==
    update(self, value, self.pyclass # "DataTypeDateTime")

DataType_overwrite(self, value) == Ret(Ok, "None", [self EXCEPT !.value = value])

DataTypeDateTime_overwrite(self, value) ==
    Bind(IF isinstance(value, "str") THEN from_str(value) ELSE Ret(Ok, value, value),
         LAMBDA parsed :
             IF parsed.exc # Ok THEN Ret(parsed.exc, "None", self)
             ELSE DataType_overwrite(self, parsed.ret))

overwrite(self, value) ==
    IF self.pyclass = "DataTypeDateTime"
    THEN DataTypeDateTime_overwrite(self, value)
    ELSE DataType_overwrite(self, value)

\* clone: a new object from the public attributes (value included), then the value
clone(self, value, from_db) ==
    Bind(DataType(self.pyclass, self.value, self.primary_key, self.foreign_key,
                  self.not_null, self.default, self.update_on_created,
                  self.update_on_modified),
         LAMBDA new_instance :
             IF value # None
             THEN IF from_db THEN overwrite(new_instance, value)
                  ELSE Bind(update(new_instance, value, FALSE),
                            LAMBDA r : Ret(r.exc, "None", r.self))
             ELSE Ret(Ok, "None", new_instance))

now == PyDateTime(clock * 500)

DataTypeDateTime_autofill(self, t) ==
    IF self.update_on_modified THEN set_change([self EXCEPT !.value = t])
    ELSE IF self.update_on_created /\ self.value = None THEN set_change([self EXCEPT !.value = t])
    ELSE self

autofill(self, t) ==
    IF self.pyclass = "DataTypeDateTime" THEN DataTypeDateTime_autofill(self, t) ELSE self

check_not_null(self) ==
    IF self.not_null /\ self.value = None
    THEN Ret("AttributeRequiredError", "None", self)
    ELSE Ret(Ok, "None", self)

\* primary_key and foreign_key checks do nothing; not_null is the third and last
check_constraint(self) == check_not_null(self)

DataType_to_sqlite(self, value, t) ==
    IF value # None THEN Ret(Ok, str(value), self)
    ELSE Bind(autofill(self, t),
              LAMBDA filled :
                  IF filled.value # None THEN Ret(Ok, str(filled.value), filled)
                  ELSE Ret(Ok, <<"null">>, filled))

\* '"' + value + '"' raises TypeError unless value is a str
DataTypeString_to_sqlite(self, value, t) ==
    IF value # None
    THEN IF isinstance(value, "str") THEN Ret(Ok, <<"\"">> \o value.s \o <<"\"">>, self)
         ELSE Ret("TypeError", <<>>, self)
    ELSE IF self.value = None THEN Ret(Ok, <<"null">>, self)
    ELSE IF isinstance(self.value, "str")
         THEN Ret(Ok, <<"\"">> \o self.value.s \o <<"\"">>, self)
         ELSE Ret("TypeError", <<>>, self)

\* strftime to microseconds, the last three digits cut, in double quotes
to_str(value) ==
    IF isinstance(value, "datetime")
    THEN Ret(Ok, <<"\"", DateSec, ".">> \o SubSeq(ZeroPad(value.n, 6), 1, 3) \o <<"\"">>, value)
    ELSE Ret("TypeError", <<>>, value)

DataTypeDateTime_to_sqlite(self, value, t) ==
    Bind(IF value # None THEN self ELSE DataTypeDateTime_autofill(self, t),
         LAMBDA filled :
             IF value = None /\ filled.value = None THEN Ret(Ok, <<"null">>, filled)
             ELSE Bind(to_str(IF value # None THEN value ELSE filled.value),
                       LAMBDA r : Ret(r.exc, r.ret, filled)))

\* int(self.value) raises TypeError on None; a given value goes to str() as it is
DataTypeBoolean_to_sqlite(self, value, t) ==
    IF value = None /\ (self.value = None \/ self.value.k \notin {"int", "bool", "float"})
    THEN Ret("TypeError", <<>>, self)
    ELSE DataType_to_sqlite(self, IF value = None THEN PyInt(self.value.n) ELSE value, t)

to_sqlite(self, value, t) ==
    CASE self.pyclass = "DataTypeString"   -> DataTypeString_to_sqlite(self, value, t)
      [] self.pyclass = "DataTypeDateTime" -> DataTypeDateTime_to_sqlite(self, value, t)
      [] self.pyclass = "DataTypeBoolean"  -> DataTypeBoolean_to_sqlite(self, value, t)
      [] OTHER                             -> DataType_to_sqlite(self, value, t)

-----------------------------------------------------------------------------
(* Ordered dicts and text.                                                 *)

\* the position of key name in a sequence of [name, ...] records, 0 when absent
RECURSIVE IndexOf(_, _)
IndexOf(d, name) ==
    IF d = <<>> THEN 0
    ELSE IF d[Len(d)].name = name /\ IndexOf(SubSeq(d, 1, Len(d) - 1), name) = 0 THEN Len(d)
    ELSE IndexOf(SubSeq(d, 1, Len(d) - 1), name)

Has(d, name) == IndexOf(d, name) # 0
Get(d, name) == d[IndexOf(d, name)]
Keys(d) == [i \in 1..Len(d) |-> d[i].name]

\* dict.update: a key already present keeps its position and takes the new entry
RECURSIVE DictUpdate(_, _)
DictUpdate(d, items) ==
    IF items = <<>> THEN d
    ELSE LET e == items[1]
             i == IndexOf(d, e.name)
             d1 == IF i = 0 THEN Append(d, e) ELSE [d EXCEPT ![i] = e]
         IN  DictUpdate(d1, Tail(items))

\* sep.join(texts)
RECURSIVE Join(_, _)
Join(texts, sep) ==
    IF texts = <<>> THEN <<>>
    ELSE IF Len(texts) = 1 THEN texts[1]
    ELSE texts[1] \o sep \o Join(Tail(texts), sep)

IsPlaceholder(tok) ==
    tok \in {"{}", "{table_name}", "{filter_str}", "{attrs_changes}", "{id}", "{cols_str}"}

\* template.format(**data): data maps placeholder tokens to text
RECURSIVE Format(_, _)
Format(template, data) ==
    IF template = <<>> THEN <<>>
    ELSE (IF template[1] \in DOMAIN data THEN data[template[1]] ELSE <<template[1]>>)
         \o Format(Tail(template), data)

\* template.format(*args)
RECURSIVE FormatPositional(_, _)
FormatPositional(template, args) ==
    IF template = <<>> THEN <<>>
    ELSE IF template[1] = "{}" /\ args # <<>>
    THEN args[1] \o FormatPositional(Tail(template), Tail(args))
    ELSE <<template[1]>> \o FormatPositional(Tail(template), args)

RECURSIVE CollapseSpaces(_)
CollapseSpaces(text) ==
    IF Len(text) < 2 THEN text
    ELSE IF text[1] = " " /\ text[2] = " " THEN CollapseSpaces(Tail(text))
    ELSE <<text[1]>> \o CollapseSpaces(Tail(text))

RECURSIVE StripLeft(_)
StripLeft(text) ==
    IF text # <<>> /\ text[1] = " " THEN StripLeft(Tail(text)) ELSE text

RECURSIVE StripRight(_)
StripRight(text) ==
    IF text # <<>> /\ text[Len(text)] = " "
    THEN StripRight(SubSeq(text, 1, Len(text) - 1)) ELSE text

\* re.sub('\s+', ' ', text).strip()
reformat(text) == StripRight(StripLeft(CollapseSpaces(text)))

-----------------------------------------------------------------------------
(* utils.py                                                                *)

\* names that begin with two underscores
DunderNames == {"__module__", "__init__", "__str__", "__meta__", "__doc__",
                "__dict__", "__weakref__", "__repr__", "__qualname__"}

NoAttr == DataType("NoneType", None, FALSE, NoForeignKey, FALSE, None, FALSE, FALSE)

Entry(name, attr) == [name |-> name, pyclass |-> attr.pyclass, attr |-> attr]
Member(name, pyclass) == [name |-> name, pyclass |-> pyclass, attr |-> NoAttr]

\* keeps the entries whose name does not start with '__' and whose value is
\* neither a classmethod nor a function
filter_attrs(attrs) ==
    SelectSeq(SelectSeq(attrs, LAMBDA e : e.name \notin DunderNames),
              LAMBDA e : e.pyclass \notin {"classmethod", "function"})

RECURSIVE update_from_parents(_, _, _)
update_from_parents(table, parents, output) ==
    IF parents = <<>> THEN output
    ELSE update_from_parents(table, Tail(parents),
             DictUpdate(output, filter_attrs(table[parents[1]].dict)))

\* the attributes of the direct bases, then the class's own
get_class_attrs(table, object) ==
    LET attrs == table[object].dict
        parents == table[object].bases
        output == update_from_parents(table, parents, <<>>)
    IN  DictUpdate(output, filter_attrs(attrs))

\* an instance's __dict__ without the names that start with '_'
get_instance_attrs(object) ==
    SelectSeq(object, LAMBDA e : e.name \notin DunderNames)

\* attribute lookup of __meta__ along the method resolution order
RECURSIVE lookup_meta(_, _)
lookup_meta(table, c) ==
    IF table[c].meta # <<>> THEN table[c].meta[1]
    ELSE IF table[c].bases = <<>> THEN None
    ELSE lookup_meta(table, table[c].bases[1])

get_table_name(table, c) ==
    LET db_name == lookup_meta(table, c)
    IN  IF db_name # None THEN db_name.s ELSE <<c>>

-----------------------------------------------------------------------------
(* sqlparser.py                                                            *)

\* the value of a command_str that is None
NoStatement == <<"<None>">>

\* a filter argument: None, or a dict as a sequence of [name, value]
NoFilter == [given |-> FALSE, items |-> <<>>]
Filter(items) == [given |-> TRUE, items |-> items]

\* a variant of filter_skip that keeps every pair
filter_skip_never(value) == FALSE

\* if value is None: continue
filter_skip(value) == value = None

\* the terms of parse_filter, in filter order; a None value is skipped
RECURSIVE filter_terms(_, _, _)
filter_terms(attrs, items, t) ==
    IF items = <<>> THEN Ret(Ok, <<>>, attrs)
    ELSE IF filter_skip(items[1].value) THEN filter_terms(attrs, Tail(items), t)
    ELSE IF ~Has(attrs, items[1].name) THEN Ret("KeyError", <<>>, attrs)
    ELSE Bind(to_sqlite(Get(attrs, items[1].name).attr, items[1].value, t),
              LAMBDA lit :
                  IF lit.exc # Ok THEN Ret(lit.exc, <<>>, attrs)
                  ELSE Bind(filter_terms(attrs, Tail(items), t),
                            LAMBDA rest :
                                IF rest.exc # Ok THEN rest
                                ELSE Ret(Ok,
                                         <<<<items[1].name, " ", "=", " ">> \o lit.ret>>
                                             \o rest.ret,
                                         attrs)))

parse_filter(attrs, filter, t) ==
    Bind(filter_terms(attrs, filter.items, t),
         LAMBDA terms :
             IF terms.exc # Ok THEN terms
             ELSE Ret(Ok, Join(terms.ret, <<" ", "and", " ">>), attrs))

\* to_sqlite() on every attribute in order; each call may change its column,
\* and the dirty flag is read right after the call
RECURSIVE render_all(_, _, _, _, _)
render_all(attrs, i, t, values, changes) ==
    IF i > Len(attrs)
    THEN [exc |-> Ok, self |-> attrs, values |-> values, changes |-> changes]
    ELSE Bind(to_sqlite(attrs[i].attr, None, t),
              LAMBDA r :
                  IF r.exc # Ok
                  THEN [exc |-> r.exc, self |-> [attrs EXCEPT ![i].attr = r.self],
                        values |-> values, changes |-> changes]
                  ELSE render_all([attrs EXCEPT ![i].attr = r.self], i + 1, t,
                                  Append(values, r.ret), Append(changes, r.self.changed)))

SQLInsertInstance_command ==
    <<"insert", " ", "into", " ", "{}", " ", "(", "{}", ")", " ", "values", " ", "(", "{}", ")">>

SQLInsertInstance_parse(table, c, object, t) ==
    Bind(render_all(get_instance_attrs(object), 1, t, <<>>, <<>>),
         LAMBDA rendered :
             IF rendered.exc # Ok THEN Ret(rendered.exc, NoStatement, rendered.self)
             ELSE Ret(Ok,
                      FormatPositional(
                          SQLInsertInstance_command,
                          <<get_table_name(table, c),
                            Join([i \in 1..Len(rendered.self) |-> <<rendered.self[i].name>>],
                                 <<",", " ">>),
                            Join(rendered.values, <<",", " ">>)>>),
                      rendered.self))

SQLUpdateInstance_command ==
    <<"update", " ", "{table_name}", " ", "set", " ", "{attrs_changes}", " ",
      "where", " ", "{table_name}", ".id", " ", "=", " ", "{id}">>

\* the result of SQLUpdateInstance.parse for the rendered values and flags
update_statement(table_name, id, names, values, changes) ==
    LET idx == SelectSeq([i \in 1..Len(names) |-> i], LAMBDA i : changes[i])
        attrs_changes == Join([j \in 1..Len(idx) |->
                                  <<names[idx[j]], " ", "=", " ">> \o values[idx[j]]],
                              <<",", " ">>)
        data == [x \in {"{table_name}", "{id}", "{attrs_changes}"} |->
                    CASE x = "{table_name}" -> table_name
                      [] x = "{id}" -> id
                      [] x = "{attrs_changes}" -> attrs_changes]
    IN  reformat(Format(SQLUpdateInstance_command, data))

SQLUpdateInstance_parse(table, c, instance, t) ==
    Bind(to_sqlite(Get(instance, "id").attr, None, t),
         LAMBDA id :
             IF id.exc # Ok THEN Ret(id.exc, NoStatement, instance)
             ELSE Bind(render_all(
                           get_instance_attrs(
                               [instance EXCEPT ![IndexOf(instance, "id")].attr = id.self]),
                           1, t, <<>>, <<>>),
                       LAMBDA rendered :
                           IF rendered.exc # Ok
                           THEN Ret(rendered.exc, NoStatement, rendered.self)
                           ELSE Ret(Ok,
                                    update_statement(get_table_name(table, c), id.ret,
                                                     Keys(rendered.self), rendered.values,
                                                     rendered.changes),
                                    rendered.self)))

SQLGetInstances_command == <<"select", " ", "*", " ", "from", " ", "{table_name}">>
SQLGetInstances_command_filter ==
    SQLGetInstances_command \o <<" ", "where", " ", "{filter_str}">>

SQLGetInstances_parse(table, c, filter, t) ==
    Bind(IF filter.given THEN parse_filter(get_class_attrs(table, c), filter, t)
         ELSE Ret(Ok, <<>>, <<>>),
         LAMBDA filter_str :
             IF filter_str.exc # Ok THEN Ret(filter_str.exc, NoStatement, <<>>)
             ELSE IF filter.given
             THEN Ret(Ok,
                      reformat(Format(SQLGetInstances_command_filter,
                                      [x \in {"{table_name}", "{filter_str}"} |->
                                          IF x = "{table_name}" THEN get_table_name(table, c)
                                          ELSE filter_str.ret])),
                      <<>>)
             ELSE Ret(Ok,
                      reformat(Format(SQLGetInstances_command,
                                      [x \in {"{table_name}"} |-> get_table_name(table, c)])),
                      <<>>))

SQLGetInstance_command ==
    <<"select", " ", "*", " ", "from", " ", "{table_name}", " ", "where", " ", "{filter_str}">>

\* filter is a dict here: None has no items()
SQLGetInstance_parse(table, c, filter, t) ==
    IF ~filter.given THEN Ret("AttributeError", NoStatement, <<>>)
    ELSE Bind(parse_filter(get_class_attrs(table, c), filter, t),
              LAMBDA filter_str :
                  IF filter_str.exc # Ok THEN Ret(filter_str.exc, NoStatement, <<>>)
                  ELSE Ret(Ok,
                           reformat(Format(SQLGetInstance_command,
                                           [x \in {"{table_name}", "{filter_str}"} |->
                                               IF x = "{table_name}"
                                               THEN get_table_name(table, c)
                                               ELSE filter_str.ret])),
                           <<>>))

SQLDeleteInstances_command == <<"delete", " ", "from", " ", "{table_name}">>
SQLDeleteInstances_command_filter == <<"where", " ", "{filter_str}">>

\* command_str.format(**data) is computed and dropped; command_str is returned
SQLDeleteInstances_parse(table, c, filter, t) ==
    Bind(IF filter.given THEN parse_filter(get_class_attrs(table, c), filter, t)
         ELSE Ret(Ok, <<>>, <<>>),
         LAMBDA filter_str :
             LET command_str == IF filter.given
                                THEN SQLDeleteInstances_command \o <<" ">>
                                     \o SQLDeleteInstances_command_filter
                                ELSE SQLDeleteInstances_command
                 data == [x \in {"{table_name}"}
                                \cup (IF filter.given THEN {"{filter_str}"} ELSE {}) |->
                             IF x = "{table_name}" THEN get_table_name(table, c)
                             ELSE filter_str.ret]
                 formatted == Format(command_str, data)
             IN  IF filter_str.exc # Ok THEN Ret(filter_str.exc, NoStatement, <<>>)
                 ELSE Ret(Ok, reformat(command_str), <<>>))

\* the attributes __init__ assigns, in the order it assigns them
InstanceAttrNames(column) ==
    <<"primary_key", "foreign_key", "not_null", "default", "_changed", "value">>
    \o (IF column.pyclass = "DataTypeDateTime"
        THEN <<"update_on_created", "update_on_modified">> ELSE <<>>)

\* get_instance_attrs of a column: its attribute names without those in '_'
column_instance_attrs(column) ==
    SelectSeq(InstanceAttrNames(column), LAMBDA k : k # "_changed")

parse_primary_key(column) ==
    IF column.primary_key THEN <<"primary", " ", "key">> ELSE <<>>

parse_not_null(column) ==
    IF column.not_null THEN <<"not", " ", "null">> ELSE <<>>

\* foreign_key is [model class, ref_attr_name]; the name defaults to 'id'
parse_foreign_key(table, column) ==
    IF column.foreign_key = NoForeignKey THEN <<>>
    ELSE <<"references", " ">> \o get_table_name(table, column.foreign_key[1])
         \o <<"(">>
         \o (IF column.foreign_key[2] # None THEN column.foreign_key[2].s ELSE <<"id">>)
         \o <<")">>

\* the keys of contraint_parser
ConstraintParsers == {"primary_key", "not_null", "foreign_key"}

\* one text per attribute of the column that has a parser, in attribute order
parse_constraints(table, column) ==
    LET names == SelectSeq(column_instance_attrs(column), LAMBDA k : k \in ConstraintParsers)
        col_str == [i \in 1..Len(names) |->
                       CASE names[i] = "primary_key" -> parse_primary_key(column)
                         [] names[i] = "not_null" -> parse_not_null(column)
                         [] names[i] = "foreign_key" -> parse_foreign_key(table, column)]
    IN  reformat(StripRight(StripLeft(Join(col_str, <<" ">>))))

\* '{col_name} {type_name} {contraints}'
parse_col(table, name, column) ==
    reformat(<<name, " ", dtype_name(column), " ">> \o parse_constraints(table, column))

SQLCreateTable_command ==
    <<"create", " ", "table", " ", "if", " ", "not", " ", "exists", " ", "{table_name}",
      " ", "(", "{cols_str}", ")">>

SQLCreateTable_parse(table, c) ==
    LET attrs == get_class_attrs(table, c)
        cols_str == [i \in 1..Len(attrs) |-> parse_col(table, attrs[i].name, attrs[i].attr)]
        data == [x \in {"{table_name}", "{cols_str}"} |->
                    IF x = "{table_name}" THEN get_table_name(table, c)
                    ELSE reformat(Join(cols_str, <<",", " ">>))]
    IN  reformat(Format(SQLCreateTable_command, data))

SQLDropTable_command == <<"drop", " ", "table", " ", "if", " ", "exists", " ", "{}">>

SQLDropTable_parse(table, c) ==
    FormatPositional(SQLDropTable_command, <<get_table_name(table, c)>>)

-----------------------------------------------------------------------------
(* models.py                                                               *)

NoInstance == <<>>

\* the values handed to create_instance / update: a dict (items are
\* [name, value]) or a list (items are [name |-> "", value])
Values(form, items) == [form |-> form, items |-> items]

\* kwargs.get(name, None)
KwGet(kwargs, name) == IF Has(kwargs, name) THEN Get(kwargs, name).value ELSE None

\* clones attribute i of attrs with values[i] and sets it on the instance;
\* the first exception ends the construction
RECURSIVE clone_all(_, _, _, _, _)
clone_all(attrs, values, from_db, i, self) ==
    IF i > Len(values) \/ i > Len(attrs) THEN Ret(Ok, "None", self)
    ELSE Bind(clone(attrs[i].attr, values[i], from_db),
              LAMBDA r :
                  IF r.exc # Ok THEN Ret(r.exc, "None", self)
                  ELSE clone_all(attrs, values, from_db, i + 1,
                                 Append(self, Entry(attrs[i].name, r.self))))

\* BasicModel.__init__(**kwargs) / (*args) / ()
BasicModel_init(table, c, values) ==
    Bind(get_class_attrs(table, c),
         LAMBDA attrs :
             IF values.form = "dict" /\ values.items # <<>>
             THEN clone_all(attrs,
                            [i \in 1..Len(attrs) |->
                                KwGet(SelectSeq(values.items, LAMBDA e : e.name # "id"),
                                      attrs[i].name)],
                            KwGet(values.items, "id") # None, 1, <<>>)
             ELSE IF values.form = "list" /\ values.items # <<>>
             THEN clone_all(attrs,
                            [i \in 1..Len(values.items) |-> values.items[i].value],
                            values.items[1].value # None, 1, <<>>)
             ELSE clone_all(attrs, [i \in 1..Len(attrs) |-> None], TRUE, 1, <<>>))

\* type_check on each value in turn; only an exception stops the loop
RECURSIVE validate_dict(_, _)
validate_dict(attrs, items) ==
    IF items = <<>> THEN Ret(Ok, "True", attrs)
    ELSE IF ~Has(attrs, items[1].name) THEN Ret("AttributeNotDeclared", "None", attrs)
    ELSE Bind(type_check(Get(attrs, items[1].name).attr, items[1].value),
              LAMBDA tc :
                  IF tc.exc # Ok THEN Ret(tc.exc, "None", attrs)
                  ELSE validate_dict(attrs, Tail(items)))

RECURSIVE validate_list(_, _, _)
validate_list(attrs, items, i) ==
    IF i > Len(items) THEN Ret(Ok, "True", attrs)
    ELSE Bind(type_check(attrs[i].attr, items[i].value),
              LAMBDA tc :
                  IF tc.exc # Ok THEN Ret(tc.exc, "None", attrs)
                  ELSE validate_list(attrs, items, i + 1))

validate(table, c, values) ==
    Bind(get_class_attrs(table, c),
         LAMBDA attrs :
             IF values.form = "dict" THEN validate_dict(attrs, values.items)
             ELSE IF Len(attrs) # Len(values.items)
             THEN Ret("AttributesNumberMismatched", "None", attrs)
             ELSE validate_list(attrs, values.items, 1))

create_instance(table, c, values) ==
    Bind(validate(table, c, values),
         LAMBDA v :
             IF v.exc # Ok THEN Ret(v.exc, "None", NoInstance)
             ELSE Bind(BasicModel_init(table, c, values),
                       LAMBDA r :
                           IF r.exc # Ok THEN Ret(r.exc, "None", NoInstance)
                           ELSE Ret(Ok, "instance", r.self)))

\* check_constraint on each attribute in turn
RECURSIVE check_constraints_from(_, _)
check_constraints_from(attrs, i) ==
    IF i > Len(attrs) THEN Ret(Ok, "None", attrs)
    ELSE Bind(check_constraint(attrs[i].attr),
              LAMBDA r :
                  IF r.exc # Ok THEN Ret(r.exc, "None", attrs)
                  ELSE check_constraints_from(attrs, i + 1))

check_constraints(self) == check_constraints_from(get_instance_attrs(self), 1)

clear_changes(self) ==
    [i \in 1..Len(self) |->
        IF self[i].name \in DunderNames THEN self[i]
        ELSE [self[i] EXCEPT !.attr = clear_change(self[i].attr)]]

\* update() on the named attributes in turn; an exception leaves the
\* attributes already updated as they are
RECURSIVE changes_check_from(_, _, _)
changes_check_from(self, items, changed_attrs) ==
    IF items = <<>> THEN Ret(Ok, changed_attrs, self)
    ELSE IF ~Has(self, items[1].name) THEN Ret("KeyError", <<>>, self)
    ELSE Bind(update_default(Get(self, items[1].name).attr, items[1].value),
              LAMBDA r :
                  IF r.exc # Ok
                  THEN Ret(r.exc, <<>>, [self EXCEPT ![IndexOf(self, items[1].name)].attr = r.self])
                  ELSE changes_check_from(
                           [self EXCEPT ![IndexOf(self, items[1].name)].attr = r.self],
                           Tail(items),
                           IF r.ret = "True" THEN Append(changed_attrs, items[1].name)
                           ELSE changed_attrs))

changes_check(self, values) ==
    IF values.form = "dict" THEN changes_check_from(self, values.items, <<>>)
    ELSE changes_check_from(
             self,
             [i \in 1..(IF Len(get_instance_attrs(self)) < Len(values.items)
                        THEN Len(get_instance_attrs(self)) ELSE Len(values.items)) |->
                 [name |-> get_instance_attrs(self)[i].name, value |-> values.items[i].value]],
             <<>>)

\* BasicModel.update
BasicModel_update(table, c, self, values) ==
    Bind(validate(table, c, values),
         LAMBDA v :
             IF v.exc # Ok THEN Ret(v.exc, <<>>, self)
             ELSE changes_check(self, values))

-----------------------------------------------------------------------------
(* sqlite_driver.py, as one caller sees it, and BasicModel.migrate         *)

HasPlaceholder(statement) == \E i \in 1..Len(statement) : IsPlaceholder(statement[i])

\* statements the engine cannot parse: cursor.execute raises on them
engine_rejects(statement) ==
    \/ HasPlaceholder(statement)
    \/ statement # <<>> /\ statement[Len(statement)] = "where"
    \/ \E i \in 1..(Len(statement) - 2) :
          statement[i] = "set" /\ statement[i + 1] = " " /\ statement[i + 2] = "where"

\* the columns after a successful execute
migrate_clear_changes(self) == clear_changes(self)

\* a variant of migrate_id that adopts the reported id after every write
migrate_id_always_adopts(self_id, last_insert_rowid) == last_insert_rowid

\* the id a row holds after a successful execute
migrate_id(self_id, last_insert_rowid) ==
    IF self_id = None THEN last_insert_rowid ELSE self_id

\* migrate: t is the time datetime.now() returns, engine_ok whether the
\* engine accepts a well-formed statement, rowid the row id an insert gets
migrate(table, c, self, t, engine_ok, rowid, cursor_lastrowid) ==
    LET inserting == Get(self, "id").attr.value = None
        Raise(exc, object, statements) ==
            [exc |-> exc, ret |-> "None", self |-> object, sent |-> statements,
             lastrowid |-> cursor_lastrowid]
    IN  Bind(IF inserting THEN SQLInsertInstance_parse(table, c, self, t)
             ELSE SQLUpdateInstance_parse(table, c, self, t),
             LAMBDA parsed :
                 IF parsed.exc # Ok THEN Raise(parsed.exc, parsed.self, <<>>)
                 ELSE IF parsed.ret = NoStatement
                 THEN [exc |-> Ok, ret |-> "None", self |-> parsed.self, sent |-> <<>>,
                       lastrowid |-> cursor_lastrowid]
                 ELSE Bind(check_constraints(parsed.self),
                           LAMBDA checked :
                               IF checked.exc # Ok
                               THEN Raise(checked.exc, parsed.self, <<>>)
                               ELSE IF ~engine_ok \/ engine_rejects(parsed.ret)
                               THEN Raise("sqlite3.Error", parsed.self, <<parsed.ret>>)
                               ELSE Bind(IF inserting THEN PyInt(rowid) ELSE cursor_lastrowid,
                                         LAMBDA new_lastrowid :
                                             [exc |-> Ok, ret |-> "True",
                                              self |-> migrate_clear_changes(
                                                  [parsed.self EXCEPT
                                                      ![IndexOf(parsed.self, "id")].attr.value =
                                                          migrate_id(@, new_lastrowid)]),
                                              sent |-> <<parsed.ret>>,
                                              lastrowid |-> new_lastrowid])))

\* delete_rows: the statement goes to execute with no mode
delete_rows(table, c, filter, t, engine_ok) ==
    Bind(SQLDeleteInstances_parse(table, c, filter, t),
         LAMBDA parsed :
             IF parsed.exc # Ok THEN [exc |-> parsed.exc, ret |-> "None", sent |-> <<>>]
             ELSE IF ~engine_ok \/ engine_rejects(parsed.ret)
             THEN [exc |-> "sqlite3.Error", ret |-> "None", sent |-> <<parsed.ret>>]
             ELSE [exc |-> Ok, ret |-> "True", sent |-> <<parsed.ret>>])

\* get_instances and get_instance: the statement goes to execute with a fetch
\* mode; the rows fetched are not part of the result here
get_instances(table, c, filter, t, engine_ok) ==
    Bind(SQLGetInstances_parse(table, c, filter, t),
         LAMBDA parsed :
             IF parsed.exc # Ok THEN [exc |-> parsed.exc, ret |-> "None", sent |-> <<>>]
             ELSE IF ~engine_ok \/ engine_rejects(parsed.ret)
             THEN [exc |-> "sqlite3.Error", ret |-> "None", sent |-> <<parsed.ret>>]
             ELSE [exc |-> Ok, ret |-> "list", sent |-> <<parsed.ret>>])

get_instance(table, c, filter, t, engine_ok) ==
    Bind(SQLGetInstance_parse(table, c, filter, t),
         LAMBDA parsed :
             IF parsed.exc # Ok THEN [exc |-> parsed.exc, ret |-> "None", sent |-> <<>>]
             ELSE IF ~engine_ok \/ engine_rejects(parsed.ret)
             THEN [exc |-> "sqlite3.Error", ret |-> "None", sent |-> <<parsed.ret>>]
             ELSE [exc |-> Ok, ret |-> "instance", sent |-> <<parsed.ret>>])

\* the Python value fetchone / fetchall hand back for a column of declared
\* type type_name after the literal was stored in it
sqlite_stored(literal, type_name) ==
    IF literal = <<"null">> THEN Ret(Ok, None, literal)
    ELSE IF Len(literal) >= 2 /\ literal[1] = "\"" /\ literal[Len(literal)] = "\""
    THEN Ret(Ok, PyStr(SubSeq(literal, 2, Len(literal) - 1)), literal)
    ELSE IF literal # <<>> /\ \A i \in 1..Len(literal) : IsDigit(literal[i])
    THEN Ret(Ok,
             IF type_name = "real" THEN PyFloat(DigitsValue(literal))
             ELSE PyInt(DigitsValue(literal)),
             literal)
    ELSE IF /\ Len(literal) >= 3
            /\ SubSeq(literal, Len(literal) - 1, Len(literal)) = <<".", "0">>
            /\ \A i \in 1..(Len(literal) - 2) : IsDigit(literal[i])
    THEN Ret(Ok,
             IF type_name = "integer"
             THEN PyInt(DigitsValue(SubSeq(literal, 1, Len(literal) - 2)))
             ELSE PyFloat(DigitsValue(SubSeq(literal, 1, Len(literal) - 2))),
             literal)
    ELSE Ret("sqlite3.Error", None, literal)

\* the column as the class declares it: the object cls(*row) clones from
declared(self) ==
    DataType(self.pyclass, None, self.primary_key, self.foreign_key, self.not_null,
             self.default, self.update_on_created, self.update_on_modified)

\* the column's own value rendered for an insert, stored, fetched and given
\* to cls(*row): clone(value, from_db=True) of the declared column.  The
\* value returned is the loaded column's; self is the column after rendering.
store_and_load(self, t) ==
    Bind(to_sqlite(self, None, t),
         LAMBDA rendered :
             IF rendered.exc # Ok THEN Ret(rendered.exc, None, rendered.self)
             ELSE Bind(sqlite_stored(rendered.ret, dtype_name(self)),
                       LAMBDA stored :
                           IF stored.exc # Ok THEN Ret(stored.exc, None, rendered.self)
                           ELSE Bind(clone(declared(self), stored.ret, TRUE),
                                     LAMBDA loaded :
                                         Ret(loaded.exc, loaded.self.value, rendered.self))))

\* init_table and drop: the statement goes to execute with no mode
init_table(table, c, engine_ok) ==
    Bind(SQLCreateTable_parse(table, c),
         LAMBDA command_str :
             IF ~engine_ok THEN [exc |-> "sqlite3.Error", ret |-> "None", sent |-> <<command_str>>]
             ELSE [exc |-> Ok, ret |-> "True", sent |-> <<command_str>>])

drop(table, c, engine_ok) ==
    Bind(SQLDropTable_parse(table, c),
         LAMBDA command_str :
             IF ~engine_ok THEN [exc |-> "sqlite3.Error", ret |-> "None", sent |-> <<command_str>>]
             ELSE [exc |-> Ok, ret |-> "None", sent |-> <<command_str>>])

-----------------------------------------------------------------------------
(* The declared classes (models.py), with the columns the scenarios use.   *)

DataTypeInteger(primary_key, not_null, default) ==
    DataType("DataTypeInteger", None, primary_key, NoForeignKey, not_null, default,
             FALSE, FALSE)
DataTypeString(not_null, default) ==
    DataType("DataTypeString", None, FALSE, NoForeignKey, not_null, default, FALSE, FALSE)
DataTypeBoolean(not_null, default) ==
    DataType("DataTypeBoolean", None, FALSE, NoForeignKey, not_null, default, FALSE, FALSE)
DataTypeDateTime(update_on_created, update_on_modified) ==
    DataType("DataTypeDateTime", None, FALSE, NoForeignKey, FALSE, None,
             update_on_created, update_on_modified)

ClassDef(bases, dict, meta) == [bases |-> bases, dict |-> dict, meta |-> meta]

ObjectClass ==
    ClassDef(<<>>, <<Member("__repr__", "wrapper_descriptor"), Member("__doc__", "str")>>, <<>>)

BasicModel ==
    ClassDef(<<"object">>,
             <<Member("__module__", "str"),
               Entry("id", DataTypeInteger(TRUE, FALSE, None)),
               Entry("name", DataTypeString(FALSE, None)),
               Member("__init__", "function"),
               Member("to_json", "function"),
               Member("get_instance", "classmethod"),
               Member("migrate", "function"),
               Member("__meta__", "type")>>,
             <<None>>)

BasicTestModel ==
    ClassDef(<<"BasicModel">>,
             <<Member("__module__", "str"),
               Entry("text", DataTypeString(TRUE, None)),
               Entry("modified", DataTypeDateTime(FALSE, TRUE)),
               Member("__meta__", "type")>>,
             <<PyStr(<<"testmodel">>)>>)

DatasetHistory ==
    ClassDef(<<"BasicModel">>,
             <<Member("__module__", "str"),
               Entry("timestamp", DataTypeDateTime(TRUE, FALSE)),
               Member("__meta__", "type")>>,
             <<PyStr(<<"datasets_history">>)>>)

Datasets ==
    ClassDef(<<"BasicModel">>,
             <<Member("__module__", "str"),
               Entry("name", DataTypeString(TRUE, None)),
               Entry("readonly", DataTypeBoolean(TRUE, PyBool(FALSE))),
               Member("__meta__", "type")>>,
             <<PyStr(<<"datasets">>)>>)

ModelNames == {"BasicModel", "BasicTestModel", "DatasetHistory", "Datasets"}

ModelsPy ==
    [c \in ModelNames \cup {"object"} |->
        CASE c = "object" -> ObjectClass
          [] c = "BasicModel" -> BasicModel
          [] c = "BasicTestModel" -> BasicTestModel
          [] c = "DatasetHistory" -> DatasetHistory
          [] c = "Datasets" -> Datasets]

-----------------------------------------------------------------------------
(* The row scenario: one row of one model class is constructed, changed    *)
(* and persisted; rows of the class are deleted.                           *)

Outcome(exc, ret) == [exc |-> exc, ret |-> ret]

Timestamp001 == PyStr(<<DateSec, ".", "0", "0", "1">>)

\* a value of the column's own type, and one that is not
GoodValue(attr) ==
    CASE attr.pyclass = "DataTypeInteger"  -> PyInt(1)
      [] attr.pyclass = "DataTypeFloat"    -> PyFloat(1)
      [] attr.pyclass = "DataTypeString"   -> PyStr(<<"Alice">>)
      [] attr.pyclass = "DataTypeDateTime" -> Timestamp001
      [] attr.pyclass = "DataTypeBoolean"  -> PyBool(TRUE)

BadValue(attr) ==
    IF attr.pyclass = "DataTypeString" THEN PyInt(1) ELSE PyStr(<<"Alice">>)

Pair(name, value) == [name |-> name, value |-> value]

\* the [name, value] pairs a caller may pass for class c: each column with
\* None, a value of its type or a value of another type, and an unknown name
ItemsFor(c) ==
    LET attrs == get_class_attrs(classes, c)
    IN  UNION {{Pair(attrs[i].name, v) :
                    v \in {None, GoodValue(attrs[i].attr), BadValue(attrs[i].attr)}} :
                  i \in 1..Len(attrs)}
        \cup {Pair("bogus", None)}

GoodItemsFor(c) ==
    LET attrs == get_class_attrs(classes, c)
    IN  {Pair(attrs[i].name, GoodValue(attrs[i].attr)) : i \in 1..Len(attrs)}

\* dicts of no, one or two keys; a dict of two starts with a well-typed value
DictInputs(c) ==
    {Values("dict", <<>>)}
    \cup {Values("dict", <<p>>) : p \in ItemsFor(c)}
    \cup {Values("dict", <<pq[1], pq[2]>>) :
              pq \in {x \in GoodItemsFor(c) \X (GoodItemsFor(c) \cup {Pair("bogus", None)}) :
                         x[1].name # x[2].name}}

\* lists of one value per column (id given or not, the others given or not)
\* and a list that is one value short
ListInputs(c) ==
    LET attrs == get_class_attrs(classes, c)
        n == Len(attrs)
    IN  {Values("list", [i \in 1..n |->
                Pair("", IF (i = 1 /\ with_id) \/ (i > 1 /\ with_rest)
                         THEN GoodValue(attrs[i].attr) ELSE None)]) :
            with_id \in BOOLEAN, with_rest \in BOOLEAN}
        \cup {Values("list", [i \in 1..(n - 1) |-> Pair("", None)])}

Inputs(c) == DictInputs(c) \cup ListInputs(c)

ThreadIds == 1..MaxThreads

RowIdle ==
    /\ col = NoAttr
    /\ arg = None
    /\ merged = <<>>
    /\ lock = FALSE
    /\ pc = [t \in ThreadIds |-> "idle"]
    /\ mode = [t \in ThreadIds |-> None]
    /\ done = [t \in ThreadIds |-> <<>>]

Init ==
    /\ classes = ModelsPy
    /\ cls \in ModelNames
    /\ inst = NoInstance
    /\ clock = 0
    /\ lastrowid = None
    /\ op = "start"
    /\ result = Outcome(Ok, "None")
    /\ sent = <<>>
    /\ RowIdle

RowUnchanged == UNCHANGED <<classes, cls, col, arg, merged, lock, pc, mode, done>>

\* cls.create_instance(values)
CreateInstance ==
    /\ inst = NoInstance
    /\ \E values \in Inputs(cls) :
          \E r \in {create_instance(classes, cls, values)} :
              /\ inst' = r.self
              /\ result' = Outcome(r.exc, r.ret)
    /\ op' = "create_instance"
    /\ sent' = <<>>
    /\ UNCHANGED <<clock, lastrowid>>
    /\ RowUnchanged

\* instance.update(values)
Update ==
    /\ inst # NoInstance
    /\ \E values \in Inputs(cls) :
          \E r \in {BasicModel_update(classes, cls, inst, values)} :
              /\ inst' = r.self
              /\ result' = Outcome(r.exc, IF r.exc = Ok THEN "list" ELSE "None")
    /\ op' = "update"
    /\ sent' = <<>>
    /\ UNCHANGED <<clock, lastrowid>>
    /\ RowUnchanged

\* instance.migrate(sqlite_driver)
Migrate ==
    /\ inst # NoInstance
    /\ \E engine_ok \in BOOLEAN, rowid \in 1..MaxRowId :
          \E r \in {migrate(classes, cls, inst, now, engine_ok, rowid, lastrowid)} :
              /\ inst' = r.self
              /\ result' = Outcome(r.exc, r.ret)
              /\ sent' = r.sent
              /\ lastrowid' = r.lastrowid
    /\ op' = "migrate"
    /\ UNCHANGED clock
    /\ RowUnchanged

\* time passes between two operations
Tick ==
    /\ clock < MaxClock
    /\ clock' = clock + 1
    /\ UNCHANGED <<inst, lastrowid, op, result, sent>>
    /\ RowUnchanged

\* another row is inserted through the same connection
OtherInsert ==
    /\ \E rowid \in 1..MaxRowId : lastrowid' = PyInt(rowid)
    /\ UNCHANGED <<inst, clock, op, result, sent>>
    /\ RowUnchanged

Next == CreateInstance \/ Update \/ Migrate \/ Tick \/ OtherInsert

Spec == Init /\ [][Next]_vars

-----------------------------------------------------------------------------
(* Properties of the row scenario.                                         *)

IdValue(self) == Get(self, "id").attr.value

IsDirty(self) == \E k \in 1..Len(self) : self[k].attr.changed

\* no column of the row fills itself in when it is rendered
NoTimestampAutofill(self) ==
    \A k \in 1..Len(self) :
        ~self[k].attr.update_on_created /\ ~self[k].attr.update_on_modified

MissingRequired(self) ==
    \E k \in 1..Len(self) : self[k].attr.not_null /\ self[k].attr.value = None

IsInsert(statement) == statement[1] = "insert"

\* the step is a call of migrate
MigrateStep == op' = "migrate" /\ Migrate

\* C1: after every successful persist, insert or update, no column of the
\* row is dirty.
C1_NoDirtyAfterPersist ==
    (op = "migrate" /\ result = Outcome(Ok, "True")) => ~IsDirty(inst)

\* C1: a successful persist has returned and a column of the row is dirty.
C1_DirtyAfterPersist ==
    op = "migrate" /\ result = Outcome(Ok, "True") /\ IsDirty(inst)

\* C2: a persist that follows a successful persist of the same row, with no
\* change to the row in between, sends no statement to the connection.  It is
\* stated for rows without self-filling timestamp columns, whose rendering
\* cannot dirty a column.
C2_SecondPersistSendsNothing ==
    [][(MigrateStep /\ op = "migrate" /\ result = Outcome(Ok, "True")
           /\ NoTimestampAutofill(inst))
       => sent' = <<>>]_vars

\* C3: persist of a Persisted row in which no column is dirty compiles to no
\* statement, calls execute with nothing and does not fail.  It is stated for
\* rows without self-filling timestamp columns.
C3_CleanRowNoStatement ==
    [][(MigrateStep /\ IdValue(inst) # None /\ ~IsDirty(inst) /\ NoTimestampAutofill(inst))
       => (sent' = <<>> /\ result'.exc = Ok)]_vars

\* C4: the id of a row changes only in a persist that executed an insert
\* successfully, from absent to the connection's last-inserted id; a persist
\* that sends a statement sends an insert iff the id is absent, an update
\* otherwise; an id that is set never changes or becomes absent.
C4_Lifecycle ==
    [][(inst # NoInstance)
       => /\ (IdValue(inst') # IdValue(inst))
                => /\ MigrateStep
                   /\ IdValue(inst) = None
                   /\ result' = Outcome(Ok, "True")
                   /\ sent' # <<>> /\ IsInsert(sent'[1])
                   /\ IdValue(inst') = lastrowid'
                   /\ IdValue(inst') # None
          /\ (MigrateStep /\ sent' # <<>>)
                => (IsInsert(sent'[1]) <=> IdValue(inst) = None)
          /\ (MigrateStep /\ result' = Outcome(Ok, "True") /\ IdValue(inst) = None)
                => IdValue(inst') # None]_vars

\* C4: a row whose id was absent has been inserted and holds the connection's
\* last-inserted id.
C4_Inserted ==
    /\ op = "migrate" /\ result = Outcome(Ok, "True")
    /\ sent # <<>> /\ IsInsert(sent[1])
    /\ IdValue(inst) # None /\ IdValue(inst) = lastrowid

\* C7: a persist of a row with a not_null column whose value is absent fails
\* with AttributeRequiredError, sends no statement and leaves the id as it was.
C7_RequiredBeforeExecute ==
    [][(MigrateStep /\ MissingRequired(inst))
       => /\ result'.exc = "AttributeRequiredError"
          /\ sent' = <<>>
          /\ IdValue(inst') = IdValue(inst)]_vars

\* C8: a persist that fails with a constraint violation leaves every column's
\* value and dirty flag as they were before the call.
C8_FailedPersistLeavesRow ==
    [][(MigrateStep /\ result'.exc = "AttributeRequiredError") => inst' = inst]_vars

\* the step is a call of update on the row
UpdateStep == op' = "update" /\ Update

\* C19: an update that raises leaves the row as it was: no column has a
\* changed value or a changed dirty flag.
C19_FailedUpdateLeavesRow ==
    [][(UpdateStep /\ result'.exc # Ok) => inst' = inst]_vars

\* C19: an update has failed with AttributeAutofillError on a row that has
\* an id and a dirty column.
C19_FailedUpdateDirtyRow ==
    /\ op = "update"
    /\ result.exc = "AttributeAutofillError"
    /\ inst # NoInstance
    /\ IdValue(inst) # None
    /\ IsDirty(inst)

-----------------------------------------------------------------------------
(* The statement scenario: a class-level statement is compiled for a       *)
(* class and a filter and handed to the connection.                        *)

\* filters of no, one or two keys, or no filter at all
FilterInputs(c) ==
    {NoFilter, Filter(<<>>)}
    \cup {Filter(<<p>>) : p \in ItemsFor(c)}
    \cup {Filter(<<pq[1], pq[2]>>) :
              pq \in {x \in GoodItemsFor(c) \X ItemsFor(c) : x[1].name # x[2].name}}

InitStatements ==
    /\ classes = ModelsPy
    /\ cls \in ModelNames
    /\ arg \in FilterInputs(cls)
    /\ inst = NoInstance
    /\ clock = 0
    /\ lastrowid = None
    /\ op = "start"
    /\ result = Outcome(Ok, "None")
    /\ sent = <<>>
    /\ col = NoAttr
    /\ merged = <<>>
    /\ lock = FALSE
    /\ pc = [t \in ThreadIds |-> "idle"]
    /\ mode = [t \in ThreadIds |-> None]
    /\ done = [t \in ThreadIds |-> <<>>]

\* cls.delete_rows(sqlite_driver, filter)
DeleteRows ==
    /\ \E engine_ok \in BOOLEAN :
          \E r \in {delete_rows(classes, cls, arg, now, engine_ok)} :
              /\ result' = Outcome(r.exc, r.ret)
              /\ sent' = r.sent
    /\ op' = "delete_rows"
    /\ UNCHANGED <<classes, cls, arg, inst, clock, lastrowid, col, merged, lock, pc, mode, done>>

\* cls.get_instances(sqlite_driver, filter)
GetInstances ==
    /\ \E engine_ok \in BOOLEAN :
          \E r \in {get_instances(classes, cls, arg, now, engine_ok)} :
              /\ result' = Outcome(r.exc, r.ret)
              /\ sent' = r.sent
    /\ op' = "get_instances"
    /\ UNCHANGED <<classes, cls, arg, inst, clock, lastrowid, col, merged, lock, pc, mode, done>>

\* cls.get_instance(sqlite_driver, filter)
GetInstance ==
    /\ \E engine_ok \in BOOLEAN :
          \E r \in {get_instance(classes, cls, arg, now, engine_ok)} :
              /\ result' = Outcome(r.exc, r.ret)
              /\ sent' = r.sent
    /\ op' = "get_instance"
    /\ UNCHANGED <<classes, cls, arg, inst, clock, lastrowid, col, merged, lock, pc, mode, done>>

\* SQLParser.parse_filter(attrs, filter): the result is the predicate text
ParseFilter ==
    /\ arg.given
    /\ \E r \in {parse_filter(get_class_attrs(classes, cls), arg, now)} :
          result' = Outcome(r.exc, r.ret)
    /\ sent' = <<>>
    /\ op' = "parse_filter"
    /\ UNCHANGED <<classes, cls, arg, inst, clock, lastrowid, col, merged, lock, pc, mode, done>>

NextStatements == DeleteRows \/ GetInstances \/ GetInstance \/ ParseFilter

SpecStatements == InitStatements /\ [][NextStatements]_vars

-----------------------------------------------------------------------------
(* Properties of the statement scenario.                                   *)

IsPrefix(p, text) == Len(p) <= Len(text) /\ SubSeq(text, 1, Len(p)) = p

Contains(text, tok) == \E i \in 1..Len(text) : text[i] = tok

\* C10: the statement delete_rows hands to the connection is "delete from"
\* and the resolved table name, followed by a where clause iff a filter of
\* some key is given, and holds no unsubstituted placeholder.
C10_DeleteStatement ==
    (op = "delete_rows" /\ sent # <<>>)
    => /\ ~HasPlaceholder(sent[1])
       /\ IsPrefix(<<"delete", " ", "from", " ">> \o get_table_name(classes, cls), sent[1])
       /\ (arg = NoFilter => ~Contains(sent[1], "where"))
       /\ (arg.items # <<>> => Contains(sent[1], "where"))

\* C10: a delete statement has gone to the connection with a placeholder in it.
C10_PlaceholderSent ==
    op = "delete_rows" /\ sent # <<>> /\ HasPlaceholder(sent[1])

\* the pairs of the filter whose value is not None, in filter order
GivenPairs(filter) == SelectSeq(filter.items, LAMBDA e : e.value # None)

\* C15: the predicate is one term column = literal for each pair whose value
\* is not None, with the literal the column renders for the value, joined
\* with " and " in filter order; a pair whose value is None gives no term.
C15_FilterPredicate ==
    (op = "parse_filter" /\ result.exc = Ok)
    => result.ret =
          Join([i \in 1..Len(GivenPairs(arg)) |->
                   <<GivenPairs(arg)[i].name, " ", "=", " ">>
                       \o to_sqlite(Get(get_class_attrs(classes, cls),
                                        GivenPairs(arg)[i].name).attr,
                                    GivenPairs(arg)[i].value, now).ret],
               <<" ", "and", " ">>)

\* C15: a predicate is compiled for a filter of two pairs, one with a value
\* and one with None.
C15_NonePairDropped ==
    /\ op = "parse_filter" /\ result.exc = Ok
    /\ Len(arg.items) = 2 /\ Len(GivenPairs(arg)) = 1
    /\ result.ret # <<>>

\* every where of the statement is followed by a blank and some text
PredicateAfterWhere(statement) ==
    \A i \in 1..Len(statement) : statement[i] = "where" => Len(statement) >= i + 2

\* C20: a statement that get_instances, get_instance or delete_rows compiled
\* and handed to the connection has a non-empty predicate after each where,
\* for every filter, the empty one and one of None values included; none
\* ends in a bare where.
C20_NoBareWhere ==
    (op \in {"get_instances", "get_instance", "delete_rows"} /\ sent # <<>>)
    => PredicateAfterWhere(sent[1])

\* C20: a select compiled for a given filter without a value in it has gone
\* to the connection ending in where.
C20_SelectEndsInWhere ==
    /\ op \in {"get_instances", "get_instance"}
    /\ arg.given /\ GivenPairs(arg) = <<>>
    /\ sent # <<>>
    /\ sent[1] = <<"select", " ", "*", " ", "from", " ">> \o get_table_name(classes, cls)
                     \o <<" ", "where">>

-----------------------------------------------------------------------------
(* The merge scenario: get_class_attrs on the last class of a chain of     *)
(* classes, each declaring some columns.                                   *)

ColumnNames == {"id", "name", "x"}

\* the declaration of column name made by the class at depth level
Declared(name, level) == Entry(name, DataTypeInteger(FALSE, FALSE, PyInt(level)))

\* the column declarations a class body may hold: up to two, in any order
Declarations(level) ==
    {<<>>}
    \cup {<<Declared(n, level)>> : n \in ColumnNames}
    \cup {<<Declared(nm[1], level), Declared(nm[2], level)>> :
              nm \in {x \in ColumnNames \X ColumnNames : x[1] # x[2]}}

ChainName(level) == <<"K1", "K2", "K3", "K4", "K5">>[level]

\* a class body: the columns, among a method, a classmethod and __meta__
ChainClass(level, columns) ==
    ClassDef(IF level = 1 THEN <<"object">> ELSE <<ChainName(level - 1)>>,
             <<Member("__module__", "str"), Member("to_json", "function")>> \o columns
                 \o <<Member("get_instance", "classmethod"), Member("__meta__", "type")>>,
             <<None>>)

Chains(depth) ==
    {[c \in {ChainName(l) : l \in 1..depth} \cup {"object"} |->
         IF c = "object" THEN ObjectClass
         ELSE LET l == CHOOSE l \in 1..depth : ChainName(l) = c
              IN  ChainClass(l, body[l])] :
       body \in [1..depth -> Declarations(1)]}

\* the same chain with each declaration marked by the depth of its class
MarkLevels(table) ==
    [c \in DOMAIN table |->
        IF c = "object" THEN table[c]
        ELSE LET l == CHOOSE l \in 1..MaxChain : ChainName(l) = c
             IN  [table[c] EXCEPT !.dict =
                     [i \in 1..Len(table[c].dict) |->
                         IF table[c].dict[i].pyclass = "DataTypeInteger"
                         THEN Declared(table[c].dict[i].name, l)
                         ELSE table[c].dict[i]]]]

InitMerge ==
    /\ \E depth \in 1..MaxChain :
          /\ classes \in {MarkLevels(t) : t \in Chains(depth)}
          /\ cls = ChainName(depth)
    /\ merged = <<>>
    /\ op = "start"
    /\ inst = NoInstance
    /\ clock = 0
    /\ lastrowid = None
    /\ result = Outcome(Ok, "None")
    /\ sent = <<>>
    /\ col = NoAttr
    /\ arg = None
    /\ lock = FALSE
    /\ pc = [t \in ThreadIds |-> "idle"]
    /\ mode = [t \in ThreadIds |-> None]
    /\ done = [t \in ThreadIds |-> <<>>]

\* get_class_attrs(cls)
GetClassAttrs ==
    /\ op = "start"
    /\ merged' = get_class_attrs(classes, cls)
    /\ op' = "get_class_attrs"
    /\ UNCHANGED <<classes, cls, inst, clock, lastrowid, result, sent, col, arg, lock, pc,
                   mode, done>>

NextMerge == GetClassAttrs

SpecMerge == InitMerge /\ [][NextMerge]_vars

-----------------------------------------------------------------------------
(* Properties of the merge scenario.                                       *)

\* the declarations of the whole chain, from the most distant ancestor to the
\* class itself, a later declaration taking the place of an earlier one
RECURSIVE WholeChain(_, _)
WholeChain(table, c) ==
    IF table[c].bases = <<>> THEN filter_attrs(table[c].dict)
    ELSE DictUpdate(WholeChain(table, table[c].bases[1]), filter_attrs(table[c].dict))

\* C5: for a chain of any length, get_class_attrs returns every column an
\* ancestor declares, each name once with its most-derived declaration, at the
\* position of its first declaration along the chain.
C5_MergedWholeChain ==
    op = "get_class_attrs" => merged = WholeChain(classes, cls)

\* C5: a column that a grandparent declares is missing from the result.
C5_AncestorColumnLost ==
    /\ op = "get_class_attrs"
    /\ \E i \in 1..Len(WholeChain(classes, cls)) :
          ~Has(merged, WholeChain(classes, cls)[i].name)

-----------------------------------------------------------------------------
(* The column scenario: one column object of any kind and any flags is     *)
(* updated, loaded, checked and rendered.                                  *)

PlainKinds == {"DataTypeInteger", "DataTypeFloat", "DataTypeString", "DataTypeBoolean"}

\* the columns a declaration can construct
ColumnTemplates ==
    {DataType(kind, None, primary_key, NoForeignKey, not_null, default, FALSE, FALSE) :
         kind \in PlainKinds, primary_key \in BOOLEAN, not_null \in BOOLEAN,
         default \in {None, PyInt(1)}}
    \cup {DataType("DataTypeDateTime", None, primary_key, NoForeignKey, not_null, None,
                   update_on_created, update_on_modified) :
              primary_key \in BOOLEAN, not_null \in BOOLEAN,
              update_on_created \in BOOLEAN, update_on_modified \in BOOLEAN}

\* the values a caller may hand to a column
Candidates ==
    {None, PyInt(1), PyInt(2), PyBool(TRUE), PyFloat(1), PyStr(<<"Alice">>), Timestamp001,
     PyDateTime(1000)}

InitColumn ==
    /\ col \in ColumnTemplates
    /\ arg = None
    /\ clock = 0
    /\ op = "start"
    /\ result = Outcome(Ok, "None")
    /\ classes = ModelsPy
    /\ cls = "BasicModel"
    /\ inst = NoInstance
    /\ lastrowid = None
    /\ sent = <<>>
    /\ merged = <<>>
    /\ lock = FALSE
    /\ pc = [t \in ThreadIds |-> "idle"]
    /\ mode = [t \in ThreadIds |-> None]
    /\ done = [t \in ThreadIds |-> <<>>]

ColumnUnchanged ==
    UNCHANGED <<classes, cls, inst, lastrowid, sent, merged, lock, pc, mode, done>>

\* col.update(value, type_check)
ColUpdate ==
    /\ \E value \in Candidates, do_type_check \in BOOLEAN :
          \E r \in {update(col, value, do_type_check)} :
              /\ col' = r.self
              /\ result' = Outcome(r.exc, r.ret)
              /\ arg' = value
    /\ op' = "update"
    /\ UNCHANGED clock
    /\ ColumnUnchanged

\* col._overwrite(value)
ColOverwrite ==
    /\ \E value \in Candidates :
          \E r \in {overwrite(col, value)} :
              /\ col' = r.self
              /\ result' = Outcome(r.exc, r.ret)
              /\ arg' = value
    /\ op' = "_overwrite"
    /\ UNCHANGED clock
    /\ ColumnUnchanged

\* col.check_constraint()
ColCheckConstraint ==
    /\ \E r \in {check_constraint(col)} :
          /\ col' = r.self
          /\ result' = Outcome(r.exc, r.ret)
    /\ arg' = None
    /\ op' = "check_constraint"
    /\ UNCHANGED clock
    /\ ColumnUnchanged

\* col.to_sqlite(value)
ColToSqlite ==
    /\ \E value \in Candidates :
          \E r \in {to_sqlite(col, value, now)} :
              /\ col' = r.self
              /\ result' = Outcome(r.exc, r.ret)
              /\ arg' = value
    /\ op' = "to_sqlite"
    /\ UNCHANGED clock
    /\ ColumnUnchanged

ColTick ==
    /\ clock < MaxClock
    /\ clock' = clock + 1
    /\ UNCHANGED <<col, arg, op, result>>
    /\ ColumnUnchanged

\* a column holding None or a value of its own type is written to its table
\* and read back into a new row
ColStoreAndLoad ==
    /\ col.value = None \/ isinstance(col.value, dtype(col))
    /\ \E r \in {store_and_load(col, now)} :
          /\ col' = r.self
          /\ result' = Outcome(r.exc, r.ret)
    /\ arg' = None
    /\ op' = "store_and_load"
    /\ UNCHANGED clock
    /\ ColumnUnchanged

NextColumn ==
    ColUpdate \/ ColOverwrite \/ ColCheckConstraint \/ ColToSqlite \/ ColStoreAndLoad \/ ColTick

SpecColumn == InitColumn /\ [][NextColumn]_vars

-----------------------------------------------------------------------------
(* Properties of the column scenario.                                      *)

\* the step is a call of update
ColUpdateStep == op' = "update" /\ ColUpdate

Protected(self) == self.primary_key \/ self.update_on_modified

EffectiveValue == IF arg # None THEN arg ELSE col.value

\* C16: to_sqlite of a DataTypeBoolean column returns "null" when the
\* effective value is None and otherwise "0" or "1", for the column's own
\* value and for a value handed in; it never raises and never returns the
\* text True or False.
C16_BooleanRendering ==
    (/\ op = "to_sqlite"
     /\ col.pyclass = "DataTypeBoolean"
     /\ EffectiveValue \in {None, PyBool(TRUE), PyBool(FALSE)})
    => /\ result.exc = Ok
       /\ result.ret = (IF EffectiveValue = None THEN <<"null">>
                        ELSE IF EffectiveValue.n = 1 THEN <<"1">> ELSE <<"0">>)

\* C16: to_sqlite(True) of a DataTypeBoolean column has returned the text True.
C16_TrueRenderedAsText ==
    /\ op = "to_sqlite"
    /\ col.pyclass = "DataTypeBoolean"
    /\ arg = PyBool(TRUE)
    /\ result = Outcome(Ok, <<"True">>)

\* C16: to_sqlite() of a DataTypeBoolean column without a value has raised.
C16_AbsentValueRaises ==
    /\ op = "to_sqlite"
    /\ col.pyclass = "DataTypeBoolean"
    /\ arg = None /\ col.value = None
    /\ result.exc = "TypeError"

\* a == b up to the milliseconds of a datetime
EqualToMillisecond(a, b) ==
    IF a.k = "datetime" /\ b.k = "datetime" THEN a.n \div 1000 = b.n \div 1000
    ELSE PyEq(a, b)

\* C17: a value rendered for storage and loaded back through cls(*row) is
\* equal to the value rendered, up to the milliseconds of a timestamp, for
\* every column kind and every value of that kind, None on a column with a
\* default included.
C17_RoundTrip ==
    (op = "store_and_load" /\ result.exc = Ok)
    => EqualToMillisecond(result.ret, col.value)

\* C17: a column with a default, holding None, was stored and loaded, and
\* the loaded value is the default.
C17_AbsentLoadsDefault ==
    /\ op = "store_and_load" /\ result.exc = Ok
    /\ col.value = None /\ col.default # None
    /\ result.ret = col.default

\* C17: a timestamp with microseconds was stored and loaded to the millisecond.
C17_TimestampTruncated ==
    /\ op = "store_and_load" /\ result.exc = Ok
    /\ col.value.k = "datetime" /\ col.value.n % 1000 # 0
    /\ result.ret = PyDateTime((col.value.n \div 1000) * 1000)

-----------------------------------------------------------------------------
(* The connection scenario: threads call execute on one connection.        *)

FETCH_ALL == 0
FETCH_ONE == 1
COMMIT == 2

\* the type argument: None, one of the three constants, or the string the
\* docstring names, which no branch matches
Modes == {None, PyInt(FETCH_ALL), PyInt(FETCH_ONE), PyInt(COMMIT), PyStr(<<"commit">>)}

\* the positions of a call at which the caller has acquired the lock
LockHeld == {"try", "fetch", "commit", "except", "release"}

lock_acquire(l) == TRUE
lock_release(l) == FALSE

\* a variant of the except clause that re-raises with the lock held
on_exception_keeps_lock(l) == l

\* the except clause releases the lock before it re-raises
on_exception(l) == lock_release(l)

InitDriver ==
    /\ lock = FALSE
    /\ pc = [t \in ThreadIds |-> "idle"]
    /\ mode = [t \in ThreadIds |-> None]
    /\ done = [t \in ThreadIds |-> <<>>]
    /\ classes = ModelsPy
    /\ cls = "BasicModel"
    /\ inst = NoInstance
    /\ clock = 0
    /\ lastrowid = None
    /\ op = "start"
    /\ result = Outcome(Ok, "None")
    /\ sent = <<>>
    /\ col = NoAttr
    /\ arg = None
    /\ merged = <<>>

DriverUnchanged ==
    UNCHANGED <<classes, cls, inst, clock, lastrowid, op, result, sent, col, arg, merged>>

\* a thread calls execute(command_str, type)
Call(t) ==
    /\ pc[t] = "idle"
    /\ \E m \in Modes : mode' = [mode EXCEPT ![t] = m]
    /\ pc' = [pc EXCEPT ![t] = "acquire"]
    /\ done' = [done EXCEPT ![t] = <<>>]
    /\ UNCHANGED lock
    /\ DriverUnchanged

\* self._lock.acquire() returns once the lock is free
Acquire(t) ==
    /\ pc[t] = "acquire"
    /\ ~lock
    /\ lock' = lock_acquire(lock)
    /\ pc' = [pc EXCEPT ![t] = "try"]
    /\ UNCHANGED <<mode, done>>
    /\ DriverUnchanged

\* the branch of the mode runs self._cursor.execute, which returns or raises
CursorExecute(t) ==
    /\ pc[t] = "try"
    /\ IF mode[t] \notin {None, PyInt(FETCH_ALL), PyInt(FETCH_ONE), PyInt(COMMIT)}
       THEN /\ pc' = [pc EXCEPT ![t] = "release"]
            /\ UNCHANGED done
       ELSE \E raises \in BOOLEAN :
              IF raises
              THEN /\ pc' = [pc EXCEPT ![t] = "except"]
                   /\ UNCHANGED done
              ELSE /\ pc' = [pc EXCEPT ![t] =
                                CASE mode[t] = None -> "release"
                                  [] mode[t] \in {PyInt(FETCH_ALL), PyInt(FETCH_ONE)} -> "fetch"
                                  [] mode[t] = PyInt(COMMIT) -> "commit"]
                   /\ done' = [done EXCEPT ![t] = Append(@, "execute")]
    /\ UNCHANGED <<lock, mode>>
    /\ DriverUnchanged

\* self._cursor.fetchall() or fetchone()
Fetch(t) ==
    /\ pc[t] = "fetch"
    /\ \E raises \in BOOLEAN :
          IF raises
          THEN /\ pc' = [pc EXCEPT ![t] = "except"]
               /\ UNCHANGED done
          ELSE /\ pc' = [pc EXCEPT ![t] = "release"]
               /\ done' = [done EXCEPT ![t] =
                              Append(@, IF mode[t] = PyInt(FETCH_ALL) THEN "fetchall" ELSE "fetchone")]
    /\ UNCHANGED <<lock, mode>>
    /\ DriverUnchanged

\* self._conn.commit()
Commit(t) ==
    /\ pc[t] = "commit"
    /\ \E raises \in BOOLEAN :
          IF raises
          THEN /\ pc' = [pc EXCEPT ![t] = "except"]
               /\ UNCHANGED done
          ELSE /\ pc' = [pc EXCEPT ![t] = "release"]
               /\ done' = [done EXCEPT ![t] = Append(@, "commit")]
    /\ UNCHANGED <<lock, mode>>
    /\ DriverUnchanged

\* except Exception as e: release, raise e
Except(t) ==
    /\ pc[t] = "except"
    /\ lock' = on_exception(lock)
    /\ pc' = [pc EXCEPT ![t] = "raised"]
    /\ UNCHANGED <<mode, done>>
    /\ DriverUnchanged

\* self._lock.release() on the normal path
Release(t) ==
    /\ pc[t] = "release"
    /\ lock' = lock_release(lock)
    /\ pc' = [pc EXCEPT ![t] = "returned"]
    /\ UNCHANGED <<mode, done>>
    /\ DriverUnchanged

\* the caller has the result or the exception
Return(t) ==
    /\ pc[t] \in {"raised", "returned"}
    /\ pc' = [pc EXCEPT ![t] = "idle"]
    /\ UNCHANGED <<lock, mode, done>>
    /\ DriverUnchanged

NextDriver ==
    \E t \in ThreadIds :
        \/ Call(t)
        \/ Acquire(t)
        \/ CursorExecute(t)
        \/ Fetch(t)
        \/ Commit(t)
        \/ Except(t)
        \/ Release(t)
        \/ Return(t)

SpecDriver == InitDriver /\ [][NextDriver]_vars

-----------------------------------------------------------------------------
(* Properties of the connection scenario.                                  *)

Holders == {t \in ThreadIds : pc[t] \in LockHeld}

\* C9: at most one caller is between acquire and release; the lock is held
\* exactly while some caller is, so it is free after a return and after an
\* error; execute, fetch and commit happen only in a caller that holds it.
C9_Serialized ==
    /\ [](Cardinality(Holders) <= 1 /\ (lock <=> Holders # {}))
    /\ [][\A t \in ThreadIds :
              (done'[t] # done[t] /\ done'[t] # <<>>) => (lock /\ t \in Holders)]_vars

\* C9: one caller's execution has failed and another caller has acquired the
\* lock and executed its statement.
C9_NextCallerRuns ==
    \E t \in ThreadIds, u \in ThreadIds :
        t # u /\ pc[t] = "raised" /\ u \in Holders /\ done[u] # <<>>

-----------------------------------------------------------------------------
(* The table scenario: the table of a class with one declared column of    *)
(* any kind and any constraints is created and dropped.                    *)

\* foreign_key of a declaration: none, with a key name, with the default key
ForeignKeys == {NoForeignKey, <<"BasicTestModel", PyStr(<<"id">>)>>, <<"Datasets", None>>}

TableColumns ==
    {DataType(kind, None, primary_key, foreign_key, not_null, None, FALSE, FALSE) :
         kind \in PlainKinds \cup {"DataTypeDateTime"}, primary_key \in BOOLEAN,
         not_null \in BOOLEAN, foreign_key \in ForeignKeys}

\* class SubTestModel(BasicModel) with the column fk declared as col
SubTestModel(column) ==
    ClassDef(<<"BasicModel">>,
             <<Member("__module__", "str"), Entry("fk", column), Member("__meta__", "type")>>,
             <<PyStr(<<"subtestmodel">>)>>)

InitTable ==
    /\ col \in TableColumns
    /\ cls = "SubTestModel"
    /\ classes = [c \in DOMAIN ModelsPy \cup {"SubTestModel"} |->
                     IF c = "SubTestModel" THEN SubTestModel(col) ELSE ModelsPy[c]]
    /\ arg = None
    /\ inst = NoInstance
    /\ clock = 0
    /\ lastrowid = None
    /\ op = "start"
    /\ result = Outcome(Ok, "None")
    /\ sent = <<>>
    /\ merged = <<>>
    /\ lock = FALSE
    /\ pc = [t \in ThreadIds |-> "idle"]
    /\ mode = [t \in ThreadIds |-> None]
    /\ done = [t \in ThreadIds |-> <<>>]

TableUnchanged ==
    UNCHANGED <<classes, cls, col, arg, inst, clock, lastrowid, merged, lock, pc, mode, done>>

\* cls.init_table(sqlite_driver)
CreateTable ==
    /\ \E engine_ok \in BOOLEAN :
          \E r \in {init_table(classes, cls, engine_ok)} :
              /\ result' = Outcome(r.exc, r.ret)
              /\ sent' = r.sent
    /\ op' = "init_table"
    /\ TableUnchanged

\* cls.drop(sqlite_driver)
DropTable ==
    /\ \E engine_ok \in BOOLEAN :
          \E r \in {drop(classes, cls, engine_ok)} :
              /\ result' = Outcome(r.exc, r.ret)
              /\ sent' = r.sent
    /\ op' = "drop"
    /\ TableUnchanged

NextTable == CreateTable \/ DropTable

SpecTable == InitTable /\ [][NextTable]_vars

-----------------------------------------------------------------------------
(* Properties of the table scenario.                                       *)

IsInfix(p, text) ==
    \E i \in 0..(Len(text) - Len(p)) : SubSeq(text, i + 1, i + Len(p)) = p

\* the constraint clauses in the order primary key, not null, references
OrderedClauses(table, column) ==
    reformat(parse_primary_key(column) \o <<" ">> \o parse_not_null(column) \o <<" ">>
             \o parse_foreign_key(table, column))

\* C11: in the create table statement the definition of a column is its name,
\* its type and its constraint clauses in the order primary key, not null,
\* references, for every subset of the three.
C11_ClauseOrder ==
    (op = "init_table" /\ sent # <<>>)
    => IsInfix(reformat(<<"fk", " ", dtype_name(col), " ">> \o OrderedClauses(classes, col)),
               sent[1])

\* C11: a table is created whose column is not null and a foreign key, and
\* the statement has the references clause before not null.
C11_ReferencesBeforeNotNull ==
    /\ op = "init_table" /\ sent # <<>>
    /\ col.not_null /\ col.foreign_key # NoForeignKey
    /\ IsInfix(<<")", " ", "not", " ", "null">>, sent[1])

-----------------------------------------------------------------------------
(* The validation scenario: validate is called on a class with a keyed or  *)
(* a positional input.                                                     *)

\* the inputs of the row scenario, and lists with one value of another type
ValidateInputs(c) ==
    Inputs(c)
    \cup {Values("list", [i \in 1..Len(get_class_attrs(classes, c)) |->
                 Pair("", IF i = bad THEN BadValue(get_class_attrs(classes, c)[i].attr)
                          ELSE None)]) :
             bad \in 1..Len(get_class_attrs(classes, c))}

InitValidate ==
    /\ classes = ModelsPy
    /\ cls \in ModelNames
    /\ arg \in ValidateInputs(cls)
    /\ inst = NoInstance
    /\ clock = 0
    /\ lastrowid = None
    /\ op = "start"
    /\ result = Outcome(Ok, "None")
    /\ sent = <<>>
    /\ col = NoAttr
    /\ merged = <<>>
    /\ lock = FALSE
    /\ pc = [t \in ThreadIds |-> "idle"]
    /\ mode = [t \in ThreadIds |-> None]
    /\ done = [t \in ThreadIds |-> <<>>]

\* cls.validate(values)
Validate ==
    /\ op = "start"
    /\ \E r \in {validate(classes, cls, arg)} : result' = Outcome(r.exc, r.ret)
    /\ op' = "validate"
    /\ UNCHANGED <<classes, cls, arg, inst, clock, lastrowid, sent, col, merged, lock, pc,
                   mode, done>>

NextValidate == Validate

SpecValidate == InitValidate /\ [][NextValidate]_vars

-----------------------------------------------------------------------------
(* Properties of the validation scenario.                                  *)

\* the value is None, of the column's type, or for a timestamp column a
\* string of the timestamp pattern
PassesCheck(attr, value) ==
    \/ value = None
    \/ IF attr.pyclass = "DataTypeDateTime" /\ isinstance(value, "str")
       THEN datetime_regex_match(value)
       ELSE isinstance(value, dtype(attr))

UnknownKey(attrs, values) ==
    values.form = "dict" /\ \E i \in 1..Len(values.items) : ~Has(attrs, values.items[i].name)

WrongLength(attrs, values) ==
    values.form = "list" /\ Len(values.items) # Len(attrs)

FailsCheck(attrs, values) ==
    \E i \in 1..Len(values.items) :
        IF values.form = "dict"
        THEN /\ Has(attrs, values.items[i].name)
             /\ ~PassesCheck(Get(attrs, values.items[i].name).attr, values.items[i].value)
        ELSE i <= Len(attrs) /\ ~PassesCheck(attrs[i].attr, values.items[i].value)

\* what validate must do with the input: nothing is wrong and it returns
\* True, or it raises the error of something that is wrong
ValidateVerdict(attrs, values, outcome) ==
    \/ /\ outcome = Outcome(Ok, "True")
       /\ ~UnknownKey(attrs, values) /\ ~WrongLength(attrs, values) /\ ~FailsCheck(attrs, values)
    \/ outcome.exc = "AttributeNotDeclared" /\ UnknownKey(attrs, values)
    \/ outcome.exc = "AttributesNumberMismatched" /\ WrongLength(attrs, values)
    \/ /\ outcome.exc = "AttributeTypeError"
       /\ ~WrongLength(attrs, values) /\ FailsCheck(attrs, values)

\* C12: validate returns True only when every key is declared, the length
\* fits and every value passes its column's type check; otherwise it raises
\* AttributeNotDeclared, AttributesNumberMismatched or AttributeTypeError.
C12_ValidateNeverSwallows ==
    op = "validate" => ValidateVerdict(get_class_attrs(classes, cls), arg, result)

\* C12: validate has returned True for an input with a string that is no
\* timestamp in a timestamp column.
C12_BadTimestampAccepted ==
    /\ op = "validate" /\ result = Outcome(Ok, "True")
    /\ FailsCheck(get_class_attrs(classes, cls), arg)

-----------------------------------------------------------------------------
(* The construction scenario: a row is constructed from a given input and  *)
(* then persisted.                                                         *)

InitConstruct ==
    /\ classes = ModelsPy
    /\ cls \in ModelNames
    /\ arg \in Inputs(cls)
    /\ inst = NoInstance
    /\ clock = 0
    /\ lastrowid = None
    /\ op = "start"
    /\ result = Outcome(Ok, "None")
    /\ sent = <<>>
    /\ col = NoAttr
    /\ merged = <<>>
    /\ lock = FALSE
    /\ pc = [t \in ThreadIds |-> "idle"]
    /\ mode = [t \in ThreadIds |-> None]
    /\ done = [t \in ThreadIds |-> <<>>]

\* cls.create_instance(values) with the given input
Construct ==
    /\ inst = NoInstance
    /\ op = "start"
    /\ \E r \in {create_instance(classes, cls, arg)} :
          /\ inst' = r.self
          /\ result' = Outcome(r.exc, r.ret)
    /\ op' = "create_instance"
    /\ sent' = <<>>
    /\ UNCHANGED <<clock, lastrowid>>
    /\ RowUnchanged

NextConstruct == Construct \/ Migrate

SpecConstruct == InitConstruct /\ [][NextConstruct]_vars

-----------------------------------------------------------------------------
(* Properties of the construction scenario.                                *)

\* the id the input supplies: the key id, or the first position
SuppliedId(values) ==
    IF values.form = "dict" THEN KwGet(values.items, "id")
    ELSE IF values.items # <<>> THEN values.items[1].value
    ELSE None

\* C13: a row constructed from an input that supplies an id, keyed or
\* positional, holds that id and has no dirty column, and a later persist
\* of it sends an update, not an insert.
C13_IdMeansLoaded ==
    (inst # NoInstance /\ SuppliedId(arg) # None)
    => /\ op = "create_instance" => (IdValue(inst) = SuppliedId(arg) /\ ~IsDirty(inst))
       /\ (op = "migrate" /\ sent # <<>>) => ~IsInsert(sent[1])

\* C13: a row constructed from a keyed input with an id has no id.
C13_KeyedIdDropped ==
    /\ op = "create_instance" /\ inst # NoInstance
    /\ arg.form = "dict" /\ SuppliedId(arg) # None
    /\ IdValue(inst) = None

-----------------------------------------------------------------------------
(* The update statement scenario: a row loaded from storage is changed     *)
(* and the update statement for it is compiled.                            *)

\* a text with a run of two spaces in it
SpacedValue == PyStr(<<"Bob", " ", " ", "Smith">>)

\* the rows of class c as loaded from storage
LoadedRows(c) ==
    {BasicModel_init(classes, c, values).self :
         values \in {x \in ListInputs(c) : x.items # <<>> /\ x.items[1].value # None}}

\* the inputs of the row scenario, and the spaced text for each text column
UpdateInputs(c) ==
    DictInputs(c)
    \cup {Values("dict", <<Pair(get_class_attrs(classes, c)[i].name, SpacedValue)>>) :
             i \in {j \in 1..Len(get_class_attrs(classes, c)) :
                       get_class_attrs(classes, c)[j].pyclass = "DataTypeString"}}

InitUpdateStatement ==
    /\ classes = ModelsPy
    /\ cls \in ModelNames
    /\ inst \in LoadedRows(cls)
    /\ arg \in UpdateInputs(cls)
    /\ clock = 0
    /\ lastrowid = None
    /\ op = "start"
    /\ result = Outcome(Ok, "None")
    /\ sent = <<>>
    /\ col = NoAttr
    /\ merged = <<>>
    /\ lock = FALSE
    /\ pc = [t \in ThreadIds |-> "idle"]
    /\ mode = [t \in ThreadIds |-> None]
    /\ done = [t \in ThreadIds |-> <<>>]

\* instance.update(values) with the given input
ApplyChanges ==
    /\ op = "start"
    /\ \E r \in {BasicModel_update(classes, cls, inst, arg)} :
          /\ inst' = r.self
          /\ result' = Outcome(r.exc, IF r.exc = Ok THEN "list" ELSE "None")
    /\ op' = "update"
    /\ sent' = <<>>
    /\ UNCHANGED <<clock, lastrowid>>
    /\ RowUnchanged

\* SQLUpdateInstance.parse(instance)
CompileUpdate ==
    /\ op \in {"start", "update"}
    /\ \E r \in {SQLUpdateInstance_parse(classes, cls, inst, now)} :
          /\ inst' = r.self
          /\ result' = Outcome(r.exc, IF r.exc = Ok THEN "str" ELSE "None")
          /\ sent' = IF r.exc = Ok THEN <<r.ret>> ELSE <<>>
    /\ op' = "parse"
    /\ UNCHANGED <<clock, lastrowid>>
    /\ RowUnchanged

NextUpdateStatement == ApplyChanges \/ CompileUpdate

SpecUpdateStatement == InitUpdateStatement /\ [][NextUpdateStatement]_vars

-----------------------------------------------------------------------------
(* Properties of the update statement scenario.                            *)

\* the positions of the dirty columns, in schema order
DirtyColumns(self) == SelectSeq([i \in 1..Len(self) |-> i], LAMBDA i : self[i].attr.changed)

\* name = value for each dirty column, with the value the column renders
SetClause(self, t) ==
    Join([j \in 1..Len(DirtyColumns(self)) |->
             <<self[DirtyColumns(self)[j]].name, " ", "=", " ">>
                 \o to_sqlite(self[DirtyColumns(self)[j]].attr, None, t).ret],
         <<",", " ">>)

\* C14: the update statement of a row with a dirty column is
\* update <name> set <col> = <v>, ... where <name>.id = <id>, with exactly
\* the columns dirty after rendering, in schema order, each with the value
\* it renders, and the row's id.
C14_UpdateShape ==
    (op = "parse" /\ sent # <<>> /\ IsDirty(inst))
    => sent[1] = <<"update", " ">> \o get_table_name(classes, cls) \o <<" ", "set", " ">>
                 \o SetClause(inst, now)
                 \o <<" ", "where", " ">> \o get_table_name(classes, cls)
                 \o <<".id", " ", "=", " ">> \o to_sqlite(Get(inst, "id").attr, None, now).ret

\* C14: an update statement is compiled for a row whose dirty text column
\* holds the spaced text.
C14_SpacedTextCompiled ==
    /\ op = "parse" /\ sent # <<>>
    /\ \E i \in 1..Len(inst) : inst[i].attr.changed /\ inst[i].attr.value = SpacedValue

-----------------------------------------------------------------------------
(* The persist scenario: every thread holds one transient row of its own   *)
(* and calls migrate on it through the one shared SqliteDriver.  Here inst *)
(* is the rows by thread, arg the statement of each thread's call, sent    *)
(* the inserts the engine has executed, in order: the table starts empty,  *)
(* so the row id of an insert is its position in sent.                     *)

RowNames == <<"Alice", "Bob", "Carol", "Dave">>

\* BasicModel.create_instance(name=...)
TransientRow(t) ==
    create_instance(ModelsPy, "BasicModel",
                    Values("dict", <<Pair("name", PyStr(<<RowNames[t]>>))>>)).self

InitPersist ==
    /\ classes = ModelsPy
    /\ cls = "BasicModel"
    /\ inst = [t \in ThreadIds |-> TransientRow(t)]
    /\ arg = [t \in ThreadIds |-> NoStatement]
    /\ sent = <<>>
    /\ lastrowid = None
    /\ lock = FALSE
    /\ pc = [t \in ThreadIds |-> "idle"]
    /\ mode = [t \in ThreadIds |-> None]
    /\ done = [t \in ThreadIds |-> <<>>]
    /\ clock = 0
    /\ op = "start"
    /\ result = Outcome(Ok, "None")
    /\ col = NoAttr
    /\ merged = <<>>

PersistUnchanged == UNCHANGED <<classes, cls, clock, col, merged>>

\* migrate up to the call of execute: the insert is compiled and the
\* constraints are checked
PersistParse(t) ==
    /\ pc[t] = "idle"
    /\ Get(inst[t], "id").attr.value = None
    /\ \E parsed \in {SQLInsertInstance_parse(classes, cls, inst[t], now)} :
          \E checked \in {IF parsed.exc = Ok THEN check_constraints(parsed.self)
                          ELSE parsed} :
              IF checked.exc # Ok
              THEN /\ pc' = [pc EXCEPT ![t] = "raised"]
                   /\ result' = Outcome(checked.exc, "None")
                   /\ inst' = [inst EXCEPT ![t] = parsed.self]
                   /\ UNCHANGED <<arg, mode>>
              ELSE /\ pc' = [pc EXCEPT ![t] = "acquire"]
                   /\ inst' = [inst EXCEPT ![t] = parsed.self]
                   /\ arg' = [arg EXCEPT ![t] = parsed.ret]
                   /\ mode' = [mode EXCEPT ![t] = PyInt(COMMIT)]
                   /\ UNCHANGED result
    /\ done' = [done EXCEPT ![t] = <<>>]
    /\ UNCHANGED <<lock, lastrowid, sent, op>>
    /\ PersistUnchanged

\* self._lock.acquire()
PersistAcquire(t) ==
    /\ pc[t] = "acquire"
    /\ ~lock
    /\ lock' = lock_acquire(lock)
    /\ pc' = [pc EXCEPT ![t] = "try"]
    /\ UNCHANGED <<inst, arg, mode, done, lastrowid, sent, op, result>>
    /\ PersistUnchanged

\* self._cursor.execute(command_str): the insert gets the next row id, which
\* the shared cursor keeps as lastrowid; or the engine raises
PersistExecute(t) ==
    /\ pc[t] = "try"
    /\ Len(sent) < MaxRowId
    /\ \E engine_ok \in BOOLEAN :
          IF ~engine_ok \/ engine_rejects(arg[t])
          THEN /\ pc' = [pc EXCEPT ![t] = "except"]
               /\ UNCHANGED <<sent, lastrowid, done>>
          ELSE /\ pc' = [pc EXCEPT ![t] = "commit"]
               /\ sent' = Append(sent, arg[t])
               /\ lastrowid' = PyInt(Len(sent) + 1)
               /\ done' = [done EXCEPT ![t] = Append(@, "execute")]
    /\ UNCHANGED <<inst, arg, mode, lock, op, result>>
    /\ PersistUnchanged

\* self._conn.commit()
PersistCommit(t) ==
    /\ pc[t] = "commit"
    /\ done' = [done EXCEPT ![t] = Append(@, "commit")]
    /\ pc' = [pc EXCEPT ![t] = "release"]
    /\ UNCHANGED <<inst, arg, mode, lock, lastrowid, sent, op, result>>
    /\ PersistUnchanged

\* except: release, re-raise; migrate ends with the exception
PersistExcept(t) ==
    /\ pc[t] = "except"
    /\ lock' = on_exception(lock)
    /\ pc' = [pc EXCEPT ![t] = "raised"]
    /\ result' = Outcome("sqlite3.Error", "None")
    /\ UNCHANGED <<inst, arg, mode, done, lastrowid, sent, op>>
    /\ PersistUnchanged

\* self._lock.release(); execute returns to migrate
PersistRelease(t) ==
    /\ pc[t] = "release"
    /\ lock' = lock_release(lock)
    /\ pc' = [pc EXCEPT ![t] = "rowid"]
    /\ UNCHANGED <<inst, arg, mode, done, lastrowid, sent, op, result>>
    /\ PersistUnchanged

\* self.id.value = sqlite_driver.get_last_insert_rowid(); self.clear_changes()
PersistAdopt(t) ==
    /\ pc[t] = "rowid"
    /\ inst' = [inst EXCEPT ![t] =
                   migrate_clear_changes(
                       [@ EXCEPT ![IndexOf(@, "id")].attr.value = migrate_id(@, lastrowid)])]
    /\ pc' = [pc EXCEPT ![t] = "returned"]
    /\ result' = Outcome(Ok, "True")
    /\ op' = "migrate"
    /\ UNCHANGED <<arg, mode, done, lock, lastrowid, sent>>
    /\ PersistUnchanged

\* the caller of a failed migrate may call it again
PersistRetry(t) ==
    /\ pc[t] = "raised"
    /\ pc' = [pc EXCEPT ![t] = "idle"]
    /\ UNCHANGED <<inst, arg, mode, done, lock, lastrowid, sent, op, result>>
    /\ PersistUnchanged

NextPersist ==
    \E t \in ThreadIds :
        \/ PersistParse(t)
        \/ PersistAcquire(t)
        \/ PersistExecute(t)
        \/ PersistCommit(t)
        \/ PersistExcept(t)
        \/ PersistRelease(t)
        \/ PersistAdopt(t)
        \/ PersistRetry(t)

SpecPersist == InitPersist /\ [][NextPersist]_vars

-----------------------------------------------------------------------------
(* Properties of the persist scenario.                                     *)

\* the row id the engine gave to the insert of thread t's row
OwnRowId(t) == CHOOSE i \in 1..Len(sent) : sent[i] = arg[t]

\* C18: under every interleaving of threads that persist their own
\* transient rows through the shared driver, a row whose migrate has
\* returned holds the row id of its own insert, so no two rows hold the
\* same id.
C18_AdoptsOwnRowId ==
    \A t \in ThreadIds :
        pc[t] = "returned" => Get(inst[t], "id").attr.value = PyInt(OwnRowId(t))

\* C18: two threads have persisted their rows and both rows hold the same id.
C18_TwoRowsOneId ==
    \E t \in ThreadIds, u \in ThreadIds :
        /\ t # u
        /\ pc[t] = "returned" /\ pc[u] = "returned"
        /\ Get(inst[t], "id").attr.value = Get(inst[u], "id").attr.value

=============================================================================
